---- MODULE Spec2Model ----
(***************************************************************************)
(* A model of the FHIR package manager (scripts/fhir_package_manager.py): *)
(* the on-disk package cache, install_package as the sequence of its I/O  *)
(* steps run by concurrent callers, and the resource index and search as  *)
(* functions of a cached package tree.                                     *)
(***************************************************************************)
EXTENDS Integers, Sequences, FiniteSets, TLC

(***************************************************************************)
(* Bounds of the model.                                                    *)
(***************************************************************************)
\* number of concurrent callers of install_package
NumCallers == 2
\* entries of a package archive
NumEntries == 2
\* files of a cached package tree handed to the indexer
MaxFiles == 2

Callers == 1..NumCallers
Entries == 1..NumEntries

(***************************************************************************)
(* Package identities: (id, version); "latest" is an ordinary version      *)
(* directory name.                                                         *)
(***************************************************************************)
PackageIds == {"core"}
Versions == {"1.0.0", "latest"}
Identities == PackageIds \X Versions

\* cache_dir / package_id / version
package_dir(i) == <<"cache_dir", i[1], i[2]>>

\* what the registry can answer to the metadata request: not-found (a status
\* raise_for_status rejects), no connection or a timeout, a body that is no
\* JSON, metadata without dist.tarball, or metadata with a tarball URL
MetadataFailures == {"not_found", "connection_error", "bad_body"}
MetadataAnswers == MetadataFailures \cup {"no_tarball", ".tgz", ".tar.gz", ".zip", ".rar"}

VARIABLES
    fs,          \* the cache: per identity, whether its directory exists and the entries in it
    pc,          \* per caller: where it is in install_package
    target,      \* per caller: the identity of its current call
    url,         \* per caller: the tarball URL's suffix taken from the metadata
    pos,         \* per caller: archive entries its running extractall has written
    outcome,     \* per caller: the path returned, or the error raised, by its last call
    callReqs,    \* per caller: requests.get and extractall calls of the current call
    completed,   \* identities some install has extracted in full
    rpc,         \* the reader (build_resource_index): idle, reading a directory, or returning
    rtarget,     \* the identity the reader indexes
    tree,        \* indexer: the cached package tree, in directory-walk order
    index,       \* indexer: the last result of build_resource_index
    results,     \* indexer: the last result of search_resources
    strays,      \* cache: files (not directories) lying at the id or the version level
    listed,      \* cache: the last result of list_installed
    patients_db,      \* REST service: the stored patients, by key
    observations_db,  \* REST service: the stored observations, by key
    response          \* REST service: the last request and its answer

installVars == <<fs, pc, target, url, pos, outcome, callReqs, completed,
                 rpc, rtarget>>
indexVars == <<tree, index, results>>
listVars == <<strays, listed>>
serverVars == <<patients_db, observations_db, response>>
otherVars == <<indexVars, listVars, serverVars>>
vars == <<installVars, otherVars>>

NoIdentity == <<"", "">>
NoOutcome == [kind |-> "none", value |-> <<>>]
NotRun == [status |-> "not_run"]
NoRequests == [metadata |-> 0, download |-> 0, extract |-> 0]

(***************************************************************************)
(* The cache store.                                                        *)
(***************************************************************************)
\* package_dir.exists()
exists(i) == fs[i].present

\* package_dir.mkdir(parents=True, exist_ok=True)
mkdir(i) == [fs EXCEPT ![i].present = TRUE]

\* one archive member written under the destination by extractall
write_entry(i, e) == [fs EXCEPT ![i].files = @ \cup {e}]

Returned(i) == [kind |-> "returned", value |-> package_dir(i)]
Raised(e) == [kind |-> "raised", value |-> <<e>>]

InstallInit ==
    /\ fs = [i \in Identities |-> [present |-> FALSE, files |-> {}]]
    /\ pc = [p \in Callers |-> "idle"]
    /\ target = [p \in Callers |-> NoIdentity]
    /\ url = [p \in Callers |-> ""]
    /\ pos = [p \in Callers |-> 0]
    /\ outcome = [p \in Callers |-> NoOutcome]
    /\ callReqs = [p \in Callers |-> NoRequests]
    /\ completed = {}
    /\ rpc = "idle"
    /\ rtarget = NoIdentity

IndexIdle ==
    /\ tree = <<>>
    /\ index = NotRun
    /\ results = NotRun

\* no stray files in the cache, list_installed not called
ListIdle ==
    /\ strays = {}
    /\ listed = NotRun

\* lines 41-42 of fhir_server.py: the stores start empty
ServerInit ==
    /\ patients_db = <<>>
    /\ observations_db = <<>>
    /\ response = NotRun

(***************************************************************************)
(* install_package, one action per I/O step.                               *)
(***************************************************************************)
\* install_package without the early return of lines 28-30
InstallPackage_NoCacheCheck(p, i) ==
    /\ pc[p] = "idle"
    /\ target' = [target EXCEPT ![p] = i]
    /\ callReqs' = [callReqs EXCEPT ![p] = NoRequests]
    /\ pc' = [pc EXCEPT ![p] = "metadata"]
    /\ outcome' = [outcome EXCEPT ![p] = NoOutcome]
    /\ UNCHANGED <<fs, url, pos, completed, rpc, rtarget, otherVars>>

\* lines 22-30: the call and its cache check
InstallPackage(p, i) ==
    /\ pc[p] = "idle"
    /\ target' = [target EXCEPT ![p] = i]
    /\ callReqs' = [callReqs EXCEPT ![p] = NoRequests]
    /\ IF exists(i)
       THEN /\ pc' = [pc EXCEPT ![p] = "done"]
            /\ outcome' = [outcome EXCEPT ![p] = Returned(i)]
       ELSE /\ pc' = [pc EXCEPT ![p] = "metadata"]
            /\ outcome' = [outcome EXCEPT ![p] = NoOutcome]
    /\ UNCHANGED <<fs, url, pos, completed, rpc, rtarget, otherVars>>

\* install_package without the test of lines 39-40: metadata without a tarball
\* URL goes on to the download like any other
GetPackageMetadata_NoUrlCheck(p, answer) ==
    /\ pc[p] = "metadata"
    /\ callReqs' = [callReqs EXCEPT ![p].metadata = @ + 1]
    /\ IF answer \in MetadataFailures
       THEN /\ pc' = [pc EXCEPT ![p] = "done"]
            /\ outcome' = [outcome EXCEPT ![p] = Raised("ValueError: not found")]
            /\ url' = url
       ELSE /\ pc' = [pc EXCEPT ![p] = "mkdir"]
            /\ url' = [url EXCEPT ![p] = answer]
            /\ outcome' = outcome
    /\ UNCHANGED <<fs, target, pos, completed, rpc, rtarget, otherVars>>

\* lines 32-40 and 48-60: the metadata request and the two checks of its answer
GetPackageMetadata(p, answer) ==
    /\ pc[p] = "metadata"
    /\ callReqs' = [callReqs EXCEPT ![p].metadata = @ + 1]
    /\ CASE answer \in {"not_found", "connection_error"} ->
              \* lines 58-60 and 34-35: any RequestException becomes None
              /\ pc' = [pc EXCEPT ![p] = "done"]
              /\ outcome' = [outcome EXCEPT ![p] = Raised("ValueError: not found")]
              /\ url' = url
         [] answer = "bad_body" ->
              \* line 57: response.json() raises; whether the exception is a
              \* RequestException depends on the requests release installed
              /\ pc' = [pc EXCEPT ![p] = "done"]
              /\ \E e \in {"ValueError: not found", "JSONDecodeError"} :
                    outcome' = [outcome EXCEPT ![p] = Raised(e)]
              /\ url' = url
         [] answer = "no_tarball" ->
              /\ pc' = [pc EXCEPT ![p] = "done"]
              /\ outcome' = [outcome EXCEPT ![p] = Raised("ValueError: no download URL")]
              /\ url' = url
         [] OTHER ->
              /\ pc' = [pc EXCEPT ![p] = "mkdir"]
              /\ url' = [url EXCEPT ![p] = answer]
              /\ outcome' = outcome
    /\ UNCHANGED <<fs, target, pos, completed, rpc, rtarget, otherVars>>

\* line 42
MakePackageDir(p) ==
    /\ pc[p] = "mkdir"
    /\ fs' = mkdir(target[p])
    /\ pc' = [pc EXCEPT ![p] = "download"]
    /\ UNCHANGED <<target, url, pos, outcome, callReqs, completed,
                   rpc, rtarget, otherVars>>

\* the archive format line 68-76 selects from the URL
archive_format(u) ==
    IF u = ".tgz" \/ u = ".tar.gz" THEN "tar"
    ELSE IF u = ".zip" THEN "zip"
    ELSE "unsupported"

\* _download_and_extract asking once more after a failed download request
Download_Retry(p, ok) ==
    /\ pc[p] = "download"
    /\ callReqs' = [callReqs EXCEPT
                      ![p].download = @ + 1,
                      ![p].extract =
                          IF ok /\ archive_format(url[p]) # "unsupported" THEN @ + 1 ELSE @]
    /\ IF ~ok /\ callReqs[p].download = 0
       THEN UNCHANGED <<pc, outcome, url>>
       ELSE /\ url' = [url EXCEPT ![p] = ""]
            /\ IF ~ok
               THEN /\ pc' = [pc EXCEPT ![p] = "done"]
                    /\ outcome' = [outcome EXCEPT ![p] = Raised("RequestException")]
               ELSE IF archive_format(url[p]) = "unsupported"
               THEN /\ pc' = [pc EXCEPT ![p] = "done"]
                    /\ outcome' = [outcome EXCEPT ![p] =
                                      Raised("ValueError: unsupported archive format")]
               ELSE /\ pc' = [pc EXCEPT ![p] = "extract"]
                    /\ outcome' = outcome
    /\ UNCHANGED <<fs, target, pos, completed, rpc, rtarget, otherVars>>

\* lines 64-76 up to the first member: the download request, then the suffix test
Download(p, ok) ==
    /\ pc[p] = "download"
    /\ callReqs' = [callReqs EXCEPT
                      ![p].download = @ + 1,
                      ![p].extract =
                          IF ok /\ archive_format(url[p]) # "unsupported" THEN @ + 1 ELSE @]
    /\ url' = [url EXCEPT ![p] = ""]
    /\ IF ~ok
       THEN /\ pc' = [pc EXCEPT ![p] = "done"]
            /\ outcome' = [outcome EXCEPT ![p] = Raised("RequestException")]
       ELSE IF archive_format(url[p]) = "unsupported"
       THEN /\ pc' = [pc EXCEPT ![p] = "done"]
            /\ outcome' = [outcome EXCEPT ![p] = Raised("ValueError: unsupported archive format")]
       ELSE /\ pc' = [pc EXCEPT ![p] = "extract"]
            /\ outcome' = outcome
    /\ UNCHANGED <<fs, target, pos, completed, rpc, rtarget, otherVars>>

\* lines 69-70, 73-74: extractall writes the next member; after the last, the
\* archive is closed and lines 45-46 return
ExtractEntry(p) ==
    /\ pc[p] = "extract"
    /\ pos[p] < NumEntries
    /\ fs' = write_entry(target[p], pos[p] + 1)
    /\ IF pos[p] + 1 = NumEntries
       THEN /\ pos' = [pos EXCEPT ![p] = 0]
            /\ pc' = [pc EXCEPT ![p] = "done"]
            /\ outcome' = [outcome EXCEPT ![p] = Returned(target[p])]
            /\ completed' = completed \cup {target[p]}
       ELSE /\ pos' = [pos EXCEPT ![p] = @ + 1]
            /\ UNCHANGED <<pc, outcome, completed>>
    /\ UNCHANGED <<target, url, callReqs, rpc, rtarget, otherVars>>

\* lines 69-70, 73-74: extractall raises (truncated or corrupt archive, write error)
ExtractFail(p) ==
    /\ pc[p] = "extract"
    /\ pc' = [pc EXCEPT ![p] = "done"]
    /\ outcome' = [outcome EXCEPT ![p] = Raised("ExtractError")]
    /\ pos' = [pos EXCEPT ![p] = 0]
    /\ UNCHANGED <<fs, target, url, callReqs, completed, rpc, rtarget, otherVars>>

\* lines 231-236: the caller has the path or the exception
Finish(p) ==
    /\ pc[p] = "done"
    /\ pc' = [pc EXCEPT ![p] = "idle"]
    /\ target' = [target EXCEPT ![p] = NoIdentity]
    /\ outcome' = [outcome EXCEPT ![p] = NoOutcome]
    /\ callReqs' = [callReqs EXCEPT ![p] = NoRequests]
    /\ UNCHANGED <<fs, url, pos, completed, rpc, rtarget, otherVars>>

(***************************************************************************)
(* A concurrent reader: build_resource_index over a cache entry.           *)
(***************************************************************************)
\* a reader that creates the directory it is asked to index
ReadBegin_Mkdir(i) ==
    /\ rpc = "idle"
    /\ rpc' = "reading"
    /\ rtarget' = i
    /\ fs' = mkdir(i)
    /\ UNCHANGED <<pc, target, url, pos, outcome, callReqs, completed, otherVars>>

\* lines 144, 109-130: the reader calls get_resource_files, which returns at once
\* when the directory is absent and walks it otherwise
ReadBegin(i) ==
    /\ rpc = "idle"
    /\ rpc' = IF exists(i) THEN "reading" ELSE "returning"
    /\ rtarget' = i
    /\ UNCHANGED <<fs, pc, target, url, pos, outcome, callReqs, completed, otherVars>>

\* lines 146-174: the reader has opened the listed files and returns the index
ReadEnd ==
    /\ rpc # "idle"
    /\ rpc' = "idle"
    /\ rtarget' = NoIdentity
    /\ UNCHANGED <<fs, pc, target, url, pos, outcome, callReqs, completed, otherVars>>

(***************************************************************************)
(* Values of JSON fields as Python sees them: None or a string, a string   *)
(* being a sequence of characters.                                         *)
(***************************************************************************)
None == [none |-> TRUE, s |-> <<>>]
Str(s) == [none |-> FALSE, s |-> s]

\* str(v)
str(v) == IF v.none THEN <<"N", "o", "n", "e">> ELSE v.s

\* one character of str.lower()
lower_char(c) ==
    CASE c = "F" -> "f"
      [] c = "N" -> "n"
      [] c = "X" -> "x"
      [] OTHER -> c

\* str.lower()
lower(s) == [k \in 1..Len(s) |-> lower_char(s[k])]

\* a in b, for strings
contains(a, b) ==
    \E k \in 0..(Len(b) - Len(a)) : SubSeq(b, k + 1, k + Len(a)) = a

\* bool(v) of an optional string argument
truthy(v) == ~v.none /\ v.s # <<>>

\* a resource_type argument that is None or empty: line 183 treats both alike
NoType == ""

(***************************************************************************)
(* A cached package tree: its *.json files in the order a directory walk   *)
(* yields them.  A file is under package/, under input/ or elsewhere under *)
(* the entry root; it holds a JSON object, JSON that is no object, text    *)
(* that is no JSON, or cannot be opened.  A key that is absent and a key   *)
(* that is null both read as None through dict.get, so an object is given  *)
(* by the value of each key read; resourceType is read with a default, so  *)
(* its absence is kept apart.                                              *)
(***************************************************************************)
Missing == "<missing>"
KnownCategories == {"StructureDefinition", "ValueSet", "CodeSystem", "SearchParameter",
                    "OperationDefinition", "CapabilityStatement"}
\* lines 134-142: the keys of the index, in insertion order
BucketOrder == <<"StructureDefinition", "ValueSet", "CodeSystem", "SearchParameter",
                 "OperationDefinition", "CapabilityStatement", "examples">>
Buckets == {BucketOrder[k] : k \in 1..Len(BucketOrder)}

Object(type, id, name, url_, title, version) ==
    [resourceType |-> type, id |-> id, name |-> name, url |-> url_, title |-> title,
     version |-> version]
NoObject == Object(Missing, None, None, None, None, None)

JsonFile(loc, res) == [loc |-> loc, kind |-> "object", resource |-> res]
BadFile(loc, kind) == [loc |-> loc, kind |-> kind, resource |-> NoObject]

DeclaredTypes == {"StructureDefinition", "ValueSet", "Patient", "examples", Missing}
FileOptions ==
    \* every declared type, with and without a name
    {JsonFile("root", Object(t, None, n, None, None, None)) :
        t \in DeclaredTypes, n \in {None, Str(<<"F", "o">>)}}
    \* a definition found through its url, its title, or with every field set
    \cup {JsonFile("root", Object("StructureDefinition", None, None, Str(<<"n", "o">>), None, None)),
          JsonFile("root", Object("StructureDefinition", None, None, None, Str(<<"F", "o">>), None)),
          JsonFile("root", Object("StructureDefinition", Str(<<"i">>), Str(<<"F", "o">>),
                                  Str(<<"x">>), Str(<<"X">>), Str(<<"1">>)))}
    \* files under the conventional subdirectories
    \cup {JsonFile(l, Object("StructureDefinition", None, None, None, None, None)) :
            l \in {"package", "input"}}
    \* files that give no record
    \cup {BadFile("root", k) : k \in {"invalid", "unreadable", "nonobject"}}

Trees == UNION {[1..n -> FileOptions] : n \in 0..MaxFiles}

\* str(file_path) of the k-th file of the tree
file_path(t, k) == <<t[k].loc, k>>

\* search_dir.rglob("*.json"): the files under dir, in walk order
RECURSIVE rglob(_, _, _)
rglob(t, dir, k) ==
    IF k > Len(t) THEN <<>>
    ELSE (IF dir = "root" \/ t[k].loc = dir THEN <<k>> ELSE <<>>) \o rglob(t, dir, k + 1)

\* lines 106-130, with resource_type None: package/, then the entry root, then input/
get_resource_files(t) ==
    rglob(t, "package", 1) \o rglob(t, "root", 1) \o rglob(t, "input", 1)

EmptyIndex == [b \in Buckets |-> <<>>]

\* lines 154-161
definition_record(t, k) ==
    [id |-> t[k].resource.id, url |-> t[k].resource.url, name |-> t[k].resource.name,
     title |-> t[k].resource.title, version |-> t[k].resource.version,
     file_path |-> file_path(t, k)]

\* lines 164-168
example_record(t, k, resource_type) ==
    [resourceType |-> resource_type, id |-> t[k].resource.id, file_path |-> file_path(t, k)]

\* line 151: resource.get("resourceType", "unknown")
declared_type(res) == IF res.resourceType = Missing THEN "unknown" ELSE res.resourceType

\* line 153: resource_type in index
is_bucket(resource_type) == resource_type \in Buckets

\* lines 147-172: one file of the loop; an exception the except clause does not
\* name leaves the loop and the function
index_file(t, k, idx) ==
    CASE t[k].kind \in {"invalid", "unreadable"} -> [status |-> "ok", index |-> idx]
      [] t[k].kind = "nonobject" -> [status |-> "raised", error |-> "AttributeError"]
      [] OTHER ->
           LET resource_type == declared_type(t[k].resource)
           IN  IF is_bucket(resource_type)
               THEN [status |-> "ok",
                     index |-> [idx EXCEPT ![resource_type] =
                                   Append(@, definition_record(t, k))]]
               ELSE [status |-> "ok",
                     index |-> [idx EXCEPT !["examples"] =
                                   Append(@, example_record(t, k, resource_type))]]

RECURSIVE index_files(_, _, _)
index_files(t, files, idx) ==
    IF files = <<>> THEN [status |-> "ok", index |-> idx]
    ELSE LET r == index_file(t, Head(files), idx)
         IN  IF r.status = "ok" THEN index_files(t, Tail(files), r.index) ELSE r

\* lines 132-174
build_resource_index(t) == index_files(t, get_resource_files(t), EmptyIndex)

\* lines 188, 192: {**resource, "resourceType": res_type}
tagged(resource, res_type) ==
    [k \in DOMAIN resource \cup {"resourceType"} |->
        IF k = "resourceType" THEN res_type ELSE resource[k]]

\* resource.get(key, "")
get_or_empty(resource, key) == IF key \in DOMAIN resource THEN resource[key] ELSE Str(<<>>)

\* lines 189-191
query_matches(query, resource) ==
    \/ contains(lower(query.s), lower(str(get_or_empty(resource, "name"))))
    \/ contains(lower(query.s), lower(str(get_or_empty(resource, "url"))))
    \/ contains(lower(query.s), lower(str(get_or_empty(resource, "title"))))

\* lines 186-192: the records of one bucket that are kept
RECURSIVE search_bucket(_, _, _)
search_bucket(resources, res_type, query) ==
    IF resources = <<>> THEN <<>>
    ELSE (IF ~truthy(query) \/ query_matches(query, Head(resources))
          THEN <<tagged(Head(resources), res_type)>>
          ELSE <<>>) \o search_bucket(Tail(resources), res_type, query)

\* lines 182-192: the buckets from the k-th on
RECURSIVE search_buckets(_, _, _, _)
search_buckets(idx, k, query, resource_type) ==
    IF k > Len(BucketOrder) THEN <<>>
    ELSE (IF resource_type # NoType /\ BucketOrder[k] # resource_type
          THEN <<>>
          ELSE search_bucket(idx[BucketOrder[k]], BucketOrder[k], query))
         \o search_buckets(idx, k + 1, query, resource_type)

\* lines 176-194
search_resources(t, query, resource_type) ==
    LET built == build_resource_index(t)
    IN  IF built.status = "ok"
        THEN [status |-> "ok", records |-> search_buckets(built.index, 1, query, resource_type)]
        ELSE built

\* the arguments given to search_resources
Queries == {None, Str(<<>>), Str(<<"f", "o">>), Str(<<"n", "o">>), Str(<<"X">>)}
TypeFilters == {NoType, "StructureDefinition", "examples", "Bogus"}

IndexInit ==
    /\ InstallInit
    /\ ListIdle
    /\ ServerInit
    /\ tree \in Trees
    /\ index = NotRun
    /\ results = NotRun

\* lines 223-229: main runs one command on a fresh manager
NoCommandRun == index = NotRun /\ results = NotRun

\* lines 260-261: the index command
BuildResourceIndex ==
    /\ NoCommandRun
    /\ index' = build_resource_index(tree)
    /\ UNCHANGED <<installVars, tree, results, listVars, serverVars>>

\* lines 247-249: the search command
SearchResources(query, resource_type) ==
    /\ NoCommandRun
    /\ results' = [query |-> query, resource_type |-> resource_type,
                   result |-> search_resources(tree, query, resource_type)]
    /\ UNCHANGED <<installVars, tree, index, listVars, serverVars>>

IndexNext ==
    \/ BuildResourceIndex
    \/ \E q \in Queries, t \in TypeFilters : SearchResources(q, t)

IndexSpec == IndexInit /\ [][IndexNext]_vars


(***************************************************************************)
(* list_installed over the cache directory.  Besides the directories the   *)
(* installs make, the cache may hold files that are no directories: at the *)
(* id level, or at the version level below an id directory.                *)
(***************************************************************************)
StrayPaths == {<<"README">>, <<"core", "notes.txt">>, <<"other", "notes.txt">>}

\* Path.iterdir(): the children in the order the filesystem gives them
RECURSIVE iterdir(_)
iterdir(children) ==
    IF children = {} THEN <<>>
    ELSE LET c == CHOOSE c \in children : TRUE
         IN  <<c>> \o iterdir(children \ {c})

\* the children of cache_dir
cache_children ==
    {[name |-> i[1], is_dir |-> TRUE] : i \in {i \in Identities : exists(i)}}
    \cup {[name |-> s[1], is_dir |-> Len(s) > 1] : s \in strays}

\* the children of cache_dir / id
package_children(id) ==
    {[name |-> i[2], is_dir |-> TRUE] : i \in {i \in Identities : i[1] = id /\ exists(i)}}
    \cup {[name |-> s[2], is_dir |-> FALSE] : s \in {s \in strays : Len(s) = 2 /\ s[1] = id}}

\* lines 88-92
installed_entry(id, version) ==
    [id |-> id, version |-> version, path |-> package_dir(<<id, version>>)]

\* list_installed without the test of line 87
RECURSIVE version_entries_NoDirCheck(_, _)
version_entries_NoDirCheck(id, children) ==
    IF children = <<>> THEN <<>>
    ELSE <<installed_entry(id, Head(children).name)>>
         \o version_entries_NoDirCheck(id, Tail(children))

\* lines 86-92: the inner loop over the children of one id directory
RECURSIVE version_entries(_, _)
version_entries(id, children) ==
    IF children = <<>> THEN <<>>
    ELSE (IF Head(children).is_dir
          THEN <<installed_entry(id, Head(children).name)>>
          ELSE <<>>) \o version_entries(id, Tail(children))

\* lines 84-92: the outer loop over the children of cache_dir
RECURSIVE package_entries(_)
package_entries(children) ==
    IF children = <<>> THEN <<>>
    ELSE (IF Head(children).is_dir
          THEN version_entries(Head(children).name,
                               iterdir(package_children(Head(children).name)))
          ELSE <<>>) \o package_entries(Tail(children))

\* lines 78-93; cache_dir itself exists since __init__
list_installed == package_entries(iterdir(cache_children))

\* the cache as the list command finds it: any stray files
CacheInit ==
    /\ InstallInit
    /\ IndexIdle
    /\ ServerInit
    /\ strays \in SUBSET StrayPaths
    /\ listed = NotRun

\* lines 238-245: the list command
ListInstalled ==
    /\ listed' = [status |-> "ok", entries |-> list_installed]
    /\ UNCHANGED <<installVars, indexVars, strays, serverVars>>

\* install commands run one after the other, then one list command
Installer == 1
CacheNext ==
    /\ listed = NotRun
    /\ \/ \E i \in Identities : InstallPackage(Installer, i)
       \/ \E a \in MetadataAnswers : GetPackageMetadata(Installer, a)
       \/ MakePackageDir(Installer)
       \/ \E ok \in BOOLEAN : Download(Installer, ok)
       \/ ExtractEntry(Installer)
       \/ ExtractFail(Installer)
       \/ Finish(Installer)
       \/ ListInstalled

CacheSpec == CacheInit /\ [][CacheNext]_vars


(***************************************************************************)
(* The REST service of fhir_server.py: two in-memory stores and the        *)
(* handlers that read and write them.  Each handler runs to its response   *)
(* without awaiting anything, so each is one step.                         *)
(***************************************************************************)
MaxVersion == 3

Ids == {"p1", "p2"}
\* a body without an id: patient.id is None after validation
NoId == ""
\* a field of a validated resource that has a value; None is one without
Some(v) == [none |-> FALSE, v |-> v]

\* HumanName dicts, strings being sequences of characters
Fox == [family |-> <<"F", "o", "x">>, given |-> <<<<"N", "a", "n">>>>]
OnlyGiven == [given |-> <<<<"X", "i">>>>]
Names == {None, Some(<<Fox>>)}
Codes == {"8867-4"}

\* the request bodies that pass validation, by the fields the handlers use
PatientBodies == [id : Ids \cup {NoId}, name : Names, gender : {None}, birthDate : {None}]
ObservationBodies == [id : Ids \cup {NoId}, code : Codes]

\* str(n) of a natural number
Digits == <<"0", "1", "2", "3", "4", "5", "6", "7", "8", "9">>
RECURSIVE str_of_int(_)
str_of_int(n) ==
    IF n < 10 THEN <<Digits[n + 1]>>
    ELSE str_of_int(n \div 10) \o <<Digits[(n % 10) + 1]>>

\* int(s) of a string of digits
digit_value(c) == (CHOOSE d \in 1..10 : Digits[d] = c) - 1
RECURSIVE int(_)
int(s) ==
    IF s = <<>> THEN 0
    ELSE 10 * int(SubSeq(s, 1, Len(s) - 1)) + digit_value(s[Len(s)])

\* db[key] = value
put(db, key, value) ==
    [k \in DOMAIN db \cup {key} |-> IF k = key THEN value ELSE db[k]]

\* del db[key]
del(db, key) == [k \in DOMAIN db \ {key} |-> db[k]]

\* dict(exclude_none=True): the fields that have a value
exclude_none(fields) ==
    [k \in {k \in DOMAIN fields : ~fields[k].none} |-> fields[k].v]

\* patient.dict(exclude_none=True) after id and meta are set
patient_dict(id, version, body) ==
    exclude_none([resourceType |-> Some("Patient"), id |-> Some(id),
                  meta |-> Some([versionId |-> version]), name |-> body.name,
                  gender |-> body.gender, birthDate |-> body.birthDate])

\* observation.dict(exclude_none=True) after id and meta are set
observation_dict(id, version, body) ==
    [resourceType |-> "Observation", id |-> id,
     meta |-> [versionId |-> version], code |-> body.code]

\* create_operation_outcome
OperationOutcome(code) == [resourceType |-> "OperationOutcome", code |-> code]

\* what a handler was asked and what it answered
Answer(op, id, sent, status, body) ==
    [op |-> op, id |-> id, sent |-> sent, status |-> status, body |-> body]

\* validate_fhir_content_type and validate_fhir_resource turning a request down
Rejected(op, id, sent, content_type_ok, valid) ==
    IF ~content_type_ok
    THEN Answer(op, id, sent, 415, OperationOutcome("not-supported"))
    ELSE Answer(op, id, sent, 400, OperationOutcome("invalid"))

\* int(existing.get("meta", {}).get("versionId", "0"))
current_version(patient_id) ==
    LET existing == IF patient_id \in DOMAIN patients_db
                    THEN patients_db[patient_id] ELSE <<>>
        meta == IF "meta" \in DOMAIN existing THEN existing.meta ELSE <<>>
        versionId == IF "versionId" \in DOMAIN meta THEN meta.versionId ELSE <<"0">>
    IN  int(versionId)

\* POST /Patient
CreatePatient(body, content_type_ok, valid) ==
    /\ IF content_type_ok /\ valid
       THEN \E id \in Ids :
               /\ IF body.id # NoId THEN id = body.id ELSE id \notin DOMAIN patients_db
               /\ patients_db' = put(patients_db, id, patient_dict(id, <<"1">>, body))
               /\ response' = Answer("create_patient", NoId, body.id, 201, patients_db'[id])
       ELSE /\ response' = Rejected("create_patient", NoId, body.id, content_type_ok, valid)
            /\ patients_db' = patients_db
    /\ UNCHANGED <<installVars, indexVars, listVars, observations_db>>

\* GET /Patient/{patient_id}
GetPatient(patient_id) ==
    /\ response' = IF patient_id \notin DOMAIN patients_db
                   THEN Answer("get_patient", patient_id, NoId, 404,
                               OperationOutcome("not-found"))
                   ELSE Answer("get_patient", patient_id, NoId, 200,
                               patients_db[patient_id])
    /\ UNCHANGED <<installVars, indexVars, listVars, patients_db, observations_db>>

\* update_patient storing the body's own id under the key of the URL
UpdatePatient_KeepBodyId(patient_id, body, content_type_ok, valid) ==
    /\ current_version(patient_id) < MaxVersion
    /\ IF content_type_ok /\ valid
       THEN /\ patients_db' =
                   put(patients_db, patient_id,
                       patient_dict(body.id,
                                    str_of_int(current_version(patient_id) + 1), body))
            /\ response' = Answer("update_patient", patient_id, body.id, 200,
                                  patients_db'[patient_id])
       ELSE /\ response' = Rejected("update_patient", patient_id, body.id,
                                    content_type_ok, valid)
            /\ patients_db' = patients_db
    /\ UNCHANGED <<installVars, indexVars, listVars, observations_db>>

\* PUT /Patient/{patient_id}
UpdatePatient(patient_id, body, content_type_ok, valid) ==
    /\ current_version(patient_id) < MaxVersion
    /\ IF content_type_ok /\ valid
       THEN /\ patients_db' =
                   put(patients_db, patient_id,
                       patient_dict(patient_id,
                                    str_of_int(current_version(patient_id) + 1), body))
            /\ response' = Answer("update_patient", patient_id, body.id, 200,
                                  patients_db'[patient_id])
       ELSE /\ response' = Rejected("update_patient", patient_id, body.id,
                                    content_type_ok, valid)
            /\ patients_db' = patients_db
    /\ UNCHANGED <<installVars, indexVars, listVars, observations_db>>

\* delete_patient answering 204 whether or not the id is stored
DeletePatient_NoCheck(patient_id) ==
    /\ patients_db' = del(patients_db, patient_id)
    /\ response' = Answer("delete_patient", patient_id, NoId, 204, NotRun)
    /\ UNCHANGED <<installVars, indexVars, listVars, observations_db>>

\* DELETE /Patient/{patient_id}
DeletePatient(patient_id) ==
    /\ IF patient_id \notin DOMAIN patients_db
       THEN /\ response' = Answer("delete_patient", patient_id, NoId, 404,
                                  OperationOutcome("not-found"))
            /\ patients_db' = patients_db
       ELSE /\ patients_db' = del(patients_db, patient_id)
            /\ response' = Answer("delete_patient", patient_id, NoId, 204, NotRun)
    /\ UNCHANGED <<installVars, indexVars, listVars, observations_db>>

\* POST /Observation
CreateObservation(body, content_type_ok, valid) ==
    /\ IF content_type_ok /\ valid
       THEN \E id \in Ids :
               /\ IF body.id # NoId THEN id = body.id
                                    ELSE id \notin DOMAIN observations_db
               /\ observations_db' =
                     put(observations_db, id, observation_dict(id, <<"1">>, body))
               /\ response' = Answer("create_observation", NoId, body.id, 201,
                                     observations_db'[id])
       ELSE /\ response' = Rejected("create_observation", NoId, body.id,
                                    content_type_ok, valid)
            /\ observations_db' = observations_db
    /\ UNCHANGED <<installVars, indexVars, listVars, patients_db>>

\* GET /Observation/{observation_id}
GetObservation(observation_id) ==
    /\ response' = IF observation_id \notin DOMAIN observations_db
                   THEN Answer("get_observation", observation_id, NoId, 404,
                               OperationOutcome("not-found"))
                   ELSE Answer("get_observation", observation_id, NoId, 200,
                               observations_db[observation_id])
    /\ UNCHANGED <<installVars, indexVars, listVars, patients_db, observations_db>>

\* the service as started: both stores empty, no package command involved
ServerStart == InstallInit /\ IndexIdle /\ ListIdle /\ ServerInit

ServerNext ==
    \/ \E b \in PatientBodies, c, v \in BOOLEAN : CreatePatient(b, c, v)
    \/ \E id \in Ids : GetPatient(id)
    \/ \E id \in Ids, b \in PatientBodies, c, v \in BOOLEAN : UpdatePatient(id, b, c, v)
    \/ \E id \in Ids : DeletePatient(id)
    \/ \E b \in ObservationBodies, c, v \in BOOLEAN : CreateObservation(b, c, v)
    \/ \E id \in Ids : GetObservation(id)

ServerSpec == ServerStart /\ [][ServerNext]_vars


(***************************************************************************)
(* search_patients over the patient store.  The store searched is any one  *)
(* that create_patient can have filled: patients with or without names, a  *)
(* gender and a birth date.                                                *)
(***************************************************************************)
Male == <<"m", "a", "l", "e">>
Year1990 == <<"1", "9", "9", "0">>
SearchedNames == Names \cup {Some(<<OnlyGiven, Fox>>)}
Genders == {None, Some(Male)}
BirthDates == {None, Some(Year1990)}
SearchedBodies ==
    [id : Ids, name : SearchedNames, gender : Genders, birthDate : BirthDates]

\* the stores left by create_patient calls with those bodies
Stores ==
    UNION {{[k \in S |-> patient_dict(k, <<"1">>, b[k])] :
               b \in {b \in [S -> SearchedBodies] : \A k \in S : b[k].id = k}} :
           S \in SUBSET Ids}

\* the query parameters of GET /Patient
SearchRequests ==
    [name : {None, Str(<<>>), Str(<<"x", " ", "n">>)},
     family : {None, Str(<<"f">>)},
     given : {None, Str(<<"N", "a">>)},
     birthdate : {None, Str(Year1990)},
     gender : {None, Str(Male)},
     page : {[count |-> 20, offset |-> 0], [count |-> 1, offset |-> 1]}]

\* " ".join(strings)
RECURSIVE join(_)
join(strings) ==
    IF strings = <<>> THEN <<>>
    ELSE IF Len(strings) = 1 THEN strings[1]
    ELSE strings[1] \o <<" ">> \o join(Tail(strings))

\* d.get(key, default)
get_or(d, key, default) == IF key \in DOMAIN d THEN d[key] ELSE default

\* d.get(key) of a string field: the string or None
get_field(d, key) == IF key \in DOMAIN d THEN Str(d[key]) ELSE None

\* bool(patient_data.get("name"))
has_names(patient_data) ==
    "name" \in DOMAIN patient_data /\ patient_data.name # <<>>

\* lines 225-228
name_match(name, patient_data) ==
    \E i \in 1..Len(patient_data.name) :
        contains(lower(name),
                 lower(get_or(patient_data.name[i], "family", <<>>) \o <<" ">>
                       \o join(get_or(patient_data.name[i], "given", <<>>))))

\* lines 233-236
family_match(family, patient_data) ==
    \E i \in 1..Len(patient_data.name) :
        contains(lower(family), lower(get_or(patient_data.name[i], "family", <<>>)))

\* lines 241-244
given_match(given, patient_data) ==
    \E i \in 1..Len(patient_data.name) :
        LET givens == get_or(patient_data.name[i], "given", <<>>)
        IN  \E g \in 1..Len(givens) : contains(lower(given), lower(givens[g]))

\* lines 221-253: match after the five tests
patient_matches(patient_data, request) ==
    /\ (truthy(request.name) /\ has_names(patient_data))
          => name_match(request.name.s, patient_data)
    /\ (truthy(request.family) /\ has_names(patient_data))
          => family_match(request.family.s, patient_data)
    /\ (truthy(request.given) /\ has_names(patient_data))
          => given_match(request.given.s, patient_data)
    /\ ~(truthy(request.birthdate)
          /\ get_field(patient_data, "birthDate") # request.birthdate)
    /\ ~(truthy(request.gender)
          /\ get_field(patient_data, "gender") # request.gender)

\* patients_db.values() in the order of insertion, which is any order
ValueOrders(db) ==
    {[n \in 1..Len(keys) |-> db[keys[n]]] :
        keys \in {o \in [1..Cardinality(DOMAIN db) -> DOMAIN db] :
                     \A m, n \in DOMAIN o : o[m] = o[n] => m = n}}

\* results[_offset:_offset + _count]
slice(found, offset, count) ==
    LET last == IF offset + count < Len(found) THEN offset + count ELSE Len(found)
    IN  IF offset >= last THEN <<>> ELSE SubSeq(found, offset + 1, last)

\* lines 219-277
search_patients(values, request) ==
    LET Matches(patient_data) == patient_matches(patient_data, request)
        found == SelectSeq(values, Matches)
        paginated_results == slice(found, request.page.offset, request.page.count)
    IN  [resourceType |-> "Bundle", type |-> "searchset", total |-> Len(found),
         entry |-> [n \in 1..Len(paginated_results) |->
                       [resource |-> paginated_results[n],
                        search |-> [mode |-> "match"]]]]

\* GET /Patient
SearchPatients(request) ==
    /\ \E values \in ValueOrders(patients_db) :
          response' = Answer("search_patients", NoId, request, 200,
                             search_patients(values, request))
    /\ UNCHANGED <<installVars, indexVars, listVars, patients_db, observations_db>>

\* the service holding any store of patients
SearchInit ==
    /\ InstallInit
    /\ IndexIdle
    /\ ListIdle
    /\ patients_db \in Stores
    /\ observations_db = <<>>
    /\ response = NotRun

SearchNext == \E request \in SearchRequests : SearchPatients(request)

SearchSpec == SearchInit /\ [][SearchNext]_vars

Init == InstallInit /\ IndexIdle /\ ListIdle /\ ServerInit

Next ==
    \/ \E p \in Callers, i \in Identities : InstallPackage(p, i)
    \/ \E p \in Callers, a \in MetadataAnswers : GetPackageMetadata(p, a)
    \/ \E p \in Callers : MakePackageDir(p)
    \/ \E p \in Callers, ok \in BOOLEAN : Download(p, ok)
    \/ \E p \in Callers : ExtractEntry(p)
    \/ \E p \in Callers : ExtractFail(p)
    \/ \E p \in Callers : Finish(p)
    \/ \E i \in Identities : ReadBegin(i)
    \/ ReadEnd

Spec == Init /\ [][Next]_vars

(***************************************************************************)
(* Properties of the install.                                              *)
(***************************************************************************)
Unsupported == Raised("ValueError: unsupported archive format")
Writing(p) == pc[p] \in {"download", "extract"}

\* C1: after an install call has failed, the directory of its identity does
\* not exist unless some install of that identity has run to full success.
FailedInstallLeavesNoEntry ==
    \A p \in Callers :
        (pc[p] = "done" /\ outcome[p].kind = "raised" /\ exists(target[p]))
        => target[p] \in completed

\* C2: an install of an identity whose directory exists returns its path at
\* once, sends no metadata and no download request and leaves the cache of
\* every identity as it was.
CachedInstallIsIdempotent ==
    [][\A p \in Callers, i \in Identities :
          (pc[p] = "idle" /\ pc'[p] # "idle" /\ target'[p] = i /\ exists(i))
          => /\ pc'[p] = "done"
             /\ outcome'[p] = Returned(i)
             /\ callReqs'[p] = NoRequests
             /\ fs' = fs]_vars

\* C2 happens: a call has returned the path of a cached identity without a request
CachedInstallReturned ==
    \E p \in Callers :
        /\ pc[p] = "done"
        /\ exists(target[p])
        /\ outcome[p] = Returned(target[p])
        /\ callReqs[p] = NoRequests

\* C3: two installs of the same identity that both return make one metadata
\* request, one download and one extraction between them, and never extract
\* into the directory at the same time.
SingleFlightInstall ==
    \A p, q \in Callers :
        (p # q /\ target[p] = target[q] /\ target[p] # NoIdentity)
        => /\ ~(pc[p] = "extract" /\ pc[q] = "extract")
           /\ (pc[p] = "done" /\ pc[q] = "done"
               /\ outcome[p].kind = "returned" /\ outcome[q].kind = "returned")
              => /\ callReqs[p].metadata + callReqs[q].metadata <= 1
                 /\ callReqs[p].download + callReqs[q].download <= 1
                 /\ callReqs[p].extract + callReqs[q].extract <= 1

\* C4: the index never reads the directory of an identity while an install of
\* that identity is between creating the directory and finishing extraction.
NoReadDuringInstall ==
    \A p \in Callers : ~(rpc = "reading" /\ rtarget = target[p] /\ Writing(p))

\* C5: after an install has failed on an unsupported archive suffix, the
\* identity has no directory.
UnsupportedLeavesNoDirectory ==
    \A p \in Callers :
        (pc[p] = "done" /\ outcome[p] = Unsupported) => ~exists(target[p])

(***************************************************************************)
(* Properties of the index and the search.                                 *)
(***************************************************************************)
Files(t) == 1..Len(t)
\* the candidate files that parse
ParsedFiles(t) == {k \in Files(t) : t[k].kind = "object"}
\* the files no record can be made of
BadFiles(t) == {k \in Files(t) : t[k].kind # "object"}
\* where the records of an index are: (bucket, position)
Places(idx) == {pl \in Buckets \X (1..(2 * MaxFiles + 2)) : pl[2] <= Len(idx[pl[1]])}
\* where the records of the k-th file are
PlacesOf(idx, t, k) == {pl \in Places(idx) : idx[pl[1]][pl[2]].file_path = file_path(t, k)}
Indexed == index # NotRun /\ index.status = "ok"

\* C6: the index holds as many records as files parsed, one record per parsed
\* file, in one bucket.
IndexComplete ==
    Indexed =>
        /\ Cardinality(Places(index.index)) = Cardinality(ParsedFiles(tree))
        /\ \A k \in ParsedFiles(tree) : Cardinality(PlacesOf(index.index, tree, k)) = 1

\* C7: build_resource_index returns normally whatever the files hold, with a
\* record of every valid file and none of a bad one.
IndexingNeverFails ==
    index # NotRun =>
        /\ index.status = "ok"
        /\ \A k \in ParsedFiles(tree) : PlacesOf(index.index, tree, k) # {}
        /\ \A k \in BadFiles(tree) : PlacesOf(index.index, tree, k) = {}

\* C8: a parsed file of a known category has its record in that bucket; any
\* other parsed file has its record in "examples" and nowhere else, and the
\* record carries the type the file declares ("unknown" standing for none).
ClassifiedByDeclaredType ==
    Indexed =>
        \A k \in ParsedFiles(tree) :
            LET type == tree[k].resource.resourceType
                places == PlacesOf(index.index, tree, k)
            IN  IF type \in KnownCategories
                THEN \E pl \in places : pl[1] = type
                ELSE /\ places # {}
                     /\ \A pl \in places :
                          /\ pl[1] = "examples"
                          /\ "resourceType" \in DOMAIN index.index[pl[1]][pl[2]]
                          /\ index.index[pl[1]][pl[2]].resourceType =
                                IF type = Missing THEN "unknown" ELSE type

Searched == results # NotRun /\ results.result.status = "ok"
\* the text of a field of a record, a field without a value being empty
FieldText(resource, key) ==
    IF key \in DOMAIN resource /\ ~resource[key].none THEN resource[key].s ELSE <<>>
\* the query is, without regard to case, part of the name, url or title
QueryInFields(query, resource) ==
    \E key \in {"name", "url", "title"} :
        contains(lower(query.s), lower(FieldText(resource, key)))
Range(seq) == {seq[n] : n \in 1..Len(seq)}

\* C9: with a query, a record of a searched bucket is returned exactly when
\* the query is part of its name, url or title, a missing field being empty.
SearchMatchesQuery ==
    (Searched /\ truthy(results.query)) =>
        LET idx == build_resource_index(tree).index
        IN  \A pl \in Places(idx) :
                (results.resource_type = NoType \/ results.resource_type = pl[1])
                => (tagged(idx[pl[1]][pl[2]], pl[1]) \in Range(results.result.records)
                    <=> QueryInFields(results.query, idx[pl[1]][pl[2]]))

RECURSIVE Flatten(_, _)
Flatten(idx, k) ==
    IF k > Len(BucketOrder) THEN <<>>
    ELSE idx[BucketOrder[k]] \o Flatten(idx, k + 1)

\* C10: without filters the search returns the records of the index, each
\* once, bucket by bucket and in bucket order, every field the index gave
\* a record kept as it is.
UnfilteredSearchIsFlatIndex ==
    (Searched /\ ~truthy(results.query) /\ results.resource_type = NoType) =>
        LET flat == Flatten(build_resource_index(tree).index, 1)
            found == results.result.records
        IN  /\ Len(found) = Len(flat)
            /\ \A n \in 1..Len(flat) :
                  \A key \in DOMAIN flat[n] : found[n][key] = flat[n][key]

\* the records of a bucket as the search returns them
TaggedBucket(idx, b) == [n \in 1..Len(idx[b]) |-> tagged(idx[b][n], b)]

\* a is b with some elements left out
RECURSIVE IsSubsequence(_, _)
IsSubsequence(a, b) ==
    IF a = <<>> THEN TRUE
    ELSE IF b = <<>> THEN FALSE
    ELSE IF Head(a) = Head(b) THEN IsSubsequence(Tail(a), Tail(b))
    ELSE IsSubsequence(a, Tail(b))

\* what C11 says of a search that returned
FilteredByType ==
    LET idx == build_resource_index(tree).index
        b == results.resource_type
        found == results.result.records
    IN  IF b \in Buckets
        THEN /\ IsSubsequence(found, TaggedBucket(idx, b))
             /\ ~truthy(results.query) => found = TaggedBucket(idx, b)
        ELSE found = <<>>

\* C11: with a resourceType given, the search returns without error, with
\* records of that bucket only, in the bucket's order, and with no record when
\* the name is no bucket of the index.
TypeFilterSelectsBucket ==
    /\ (Searched /\ results.resource_type # NoType) => FilteredByType
    /\ (results # NotRun /\ results.resource_type # NoType
            /\ results.resource_type \notin Buckets)
        => /\ results.result.status = "ok"
           /\ results.result.records = <<>>

(***************************************************************************)
(* Properties of the install, continued.                                   *)
(***************************************************************************)
NotFound == Raised("ValueError: not found")
NoDownloadUrl == Raised("ValueError: no download URL")

\* C12: a metadata request the registry answers with not-found or with an
\* unparsable body fails the install with the not-found error, and one that
\* fails to connect or times out fails it with another error.
MetadataFailuresToldApart ==
    [][\A p \in Callers :
          /\ (GetPackageMetadata(p, "not_found") \/ GetPackageMetadata(p, "bad_body"))
             => outcome'[p] = NotFound
          /\ GetPackageMetadata(p, "connection_error")
             => (outcome'[p].kind = "raised" /\ outcome'[p] # NotFound)]_vars

\* the index and the search result over no files
NothingIndexed ==
    /\ build_resource_index(<<>>) = [status |-> "ok", index |-> EmptyIndex]
    /\ \A q \in Queries, t \in TypeFilters :
          search_resources(<<>>, q, t) = [status |-> "ok", records |-> <<>>]

\* C13: a step of build_resource_index or search_resources changes no cache
\* entry and sends no request; over an absent identity it lists no files and
\* returns the empty index and the empty result.
IndexIsReadOnly ==
    [][rpc' # rpc =>
          /\ fs' = fs
          /\ callReqs' = callReqs
          /\ (rpc = "idle" /\ ~exists(rtarget'))
             => (rpc' = "returning" /\ NothingIndexed)]_vars

\* C13 happens: the index of an absent identity has been asked for
AbsentIdentityIndexed ==
    rpc = "returning" /\ ~exists(rtarget)

\* the tarball URLs the registry can name
TarballUrls == MetadataAnswers \ (MetadataFailures \cup {"no_tarball"})
InProgress(p) == pc[p] \in {"metadata", "mkdir", "download", "extract"}

\* C14: the directory is made and the download requested only after the
\* metadata request of the call returned a tarball URL, and members are
\* extracted only after the download request of the call; metadata without a
\* tarball URL ends the call with the no-download-URL ValueError, no download
\* requested and no directory made.
InstallOrdering ==
    [][\A p \in Callers :
          /\ MakePackageDir(p)
             => (callReqs[p].metadata = 1 /\ url[p] \in TarballUrls)
          /\ callReqs'[p].download > callReqs[p].download
             => (callReqs[p].metadata = 1 /\ url[p] \in TarballUrls)
          /\ (ExtractEntry(p) \/ callReqs'[p].extract > callReqs[p].extract)
             => callReqs'[p].download = 1
          /\ GetPackageMetadata(p, "no_tarball")
             => /\ pc'[p] = "done"
                /\ outcome'[p] = NoDownloadUrl
                /\ callReqs'[p].download = 0
                /\ fs' = fs]_vars

\* C14 happens: one call extracts and another has failed for want of a URL
ExtractingAndNoUrl ==
    \E p, q \in Callers :
        /\ pc[p] = "extract"
        /\ pc[q] = "done" /\ outcome[q] = NoDownloadUrl /\ ~exists(target[q])

\* C16: one install_package call sends at most one metadata request and at
\* most one download request.
NoInternalRetry ==
    \A p \in Callers : callReqs[p].metadata <= 1 /\ callReqs[p].download <= 1

\* C16 happens: a call has ended on a failed download request
DownloadFailedOnce ==
    \E p \in Callers :
        /\ pc[p] = "done"
        /\ outcome[p] = Raised("RequestException")
        /\ callReqs[p].download = 1

\* C17: a call for an identity that no install has extracted in full, and
\* that no other call is installing, fetches the metadata again.
FailedInstallIsRetried ==
    [][\A p \in Callers, i \in Identities :
          (InstallPackage(p, i) /\ i \notin completed
              /\ ~\E q \in Callers : target[q] = i /\ InProgress(q))
          => pc'[p] = "metadata"]_vars

(***************************************************************************)
(* Properties of list_installed.                                           *)
(***************************************************************************)
ListedIdentities == {<<listed.entries[n].id, listed.entries[n].version>> :
                        n \in 1..Len(listed.entries)}

\* C15: list_installed returns one entry for every identity whose directory
\* exists, none for anything else (files at either level give none), and no
\* identity twice.
ListedAreTheCached ==
    listed # NotRun =>
        /\ ListedIdentities = {i \in Identities : exists(i)}
        /\ Cardinality(ListedIdentities) = Len(listed.entries)
        /\ \A n \in 1..Len(listed.entries) :
              listed.entries[n].path =
                  package_dir(<<listed.entries[n].id, listed.entries[n].version>>)

\* C15 happens: two identities listed, one of them left by a failed install,
\* among files at both levels
ListedAmongStrays ==
    /\ listed # NotRun
    /\ strays = StrayPaths
    /\ Len(listed.entries) = 2
    /\ \E i \in Identities : exists(i) /\ i \notin completed

(***************************************************************************)
(* Properties of the REST service.                                         *)
(***************************************************************************)
version_of(db, k) == int(db[k].meta.versionId)

\* C19: every resource stored in patients_db or observations_db under key k
\* has its own id field equal to k.
StoredIdIsKey ==
    /\ \A k \in DOMAIN patients_db : patients_db[k].id = k
    /\ \A k \in DOMAIN observations_db : observations_db[k].id = k

\* C19 happens: an update whose body named another id was stored, next to
\* a stored observation
UpdatedUnderUrlId ==
    /\ response # NotRun
    /\ response.op = "update_patient"
    /\ response.status = 200
    /\ response.sent \notin {NoId, response.id}
    /\ response.id \in DOMAIN patients_db
    /\ DOMAIN observations_db # {}

\* the step is an answer of the handler op with the given status
Answers(op, status) == response'.op = op /\ response'.status = status

\* C18: the stored meta.versionId of a patient is 1 after create_patient,
\* one more after each update_patient of its id, and never decreases while
\* the patient stays in the store.
PatientVersionCounter ==
    [][\A k \in Ids :
          /\ (Answers("create_patient", 201) /\ response'.body.id = k)
                => version_of(patients_db', k) = 1
          /\ (Answers("update_patient", 200) /\ response'.id = k
                /\ k \in DOMAIN patients_db)
                => version_of(patients_db', k) = version_of(patients_db, k) + 1
          /\ (k \in DOMAIN patients_db /\ k \in DOMAIN patients_db')
                => version_of(patients_db', k) >= version_of(patients_db, k)]_vars

\* C20: delete_patient and get_patient of an id not stored answer 404 and
\* change nothing; a delete of a stored id removes that id and nothing else;
\* get_patient answers 404 exactly for the ids not stored, and only
\* create_patient and update_patient store an id.
PatientDeleteAndRead ==
    [][\A k \in Ids :
          /\ (response'.op \in {"delete_patient", "get_patient"} /\ response'.id = k
                /\ k \notin DOMAIN patients_db)
                => (response'.status = 404 /\ patients_db' = patients_db)
          /\ (response'.op = "delete_patient" /\ response'.id = k
                /\ k \in DOMAIN patients_db)
                => /\ response'.status = 204
                   /\ DOMAIN patients_db' = DOMAIN patients_db \ {k}
                   /\ \A o \in DOMAIN patients_db' : patients_db'[o] = patients_db[o]
          /\ (response'.op = "get_patient" /\ response'.id = k
                /\ k \in DOMAIN patients_db)
                => /\ response'.status = 200
                   /\ response'.body = patients_db[k]
                   /\ patients_db' = patients_db
          /\ (k \notin DOMAIN patients_db /\ k \in DOMAIN patients_db')
                => response'.op \in {"create_patient", "update_patient"}]_vars

\* C20 happens: a patient was deleted while an updated one stays stored
DeletedBesideAnother ==
    /\ response # NotRun
    /\ response.op = "delete_patient"
    /\ response.status = 204
    /\ response.id \notin DOMAIN patients_db
    /\ \E o \in DOMAIN patients_db : version_of(patients_db, o) = 2

(***************************************************************************)
(* Properties of search_patients.                                          *)
(***************************************************************************)
NamesOf(patient) == IF "name" \in DOMAIN patient THEN patient.name ELSE <<>>
NameText(n) ==
    get_or(n, "family", <<>>) \o <<" ">> \o join(get_or(n, "given", <<>>))

\* the patient has what a supplied filter asks for
Satisfies(patient, request) ==
    /\ truthy(request.name) =>
          \E i \in 1..Len(NamesOf(patient)) :
             contains(lower(request.name.s), lower(NameText(NamesOf(patient)[i])))
    /\ truthy(request.family) =>
          \E i \in 1..Len(NamesOf(patient)) :
             contains(lower(request.family.s),
                      lower(get_or(NamesOf(patient)[i], "family", <<>>)))
    /\ truthy(request.given) =>
          \E i \in 1..Len(NamesOf(patient)) :
             \E g \in 1..Len(get_or(NamesOf(patient)[i], "given", <<>>)) :
                contains(lower(request.given.s),
                         lower(get_or(NamesOf(patient)[i], "given", <<>>)[g]))
    /\ truthy(request.birthdate) =>
          ("birthDate" \in DOMAIN patient /\ patient.birthDate = request.birthdate.s)
    /\ truthy(request.gender) =>
          ("gender" \in DOMAIN patient /\ patient.gender = request.gender.s)

SearchAnswered == response # NotRun /\ response.op = "search_patients"
ReturnedPatients(bundle) == {bundle.entry[n].resource : n \in 1..Len(bundle.entry)}

\* C21: the patients search_patients returns satisfy every supplied filter,
\* with the first page holding the whole store they are exactly the stored
\* patients that do, and total is the number of those.
SearchReturnsTheSatisfying ==
    SearchAnswered =>
        LET satisfying == {k \in DOMAIN patients_db :
                              Satisfies(patients_db[k], response.sent)}
        IN  /\ \A p \in ReturnedPatients(response.body) : Satisfies(p, response.sent)
            /\ response.sent.page.offset = 0 =>
                  ReturnedPatients(response.body) = {patients_db[k] : k \in satisfying}
            /\ response.body.total = Cardinality(satisfying)

====
